---------------------------- MODULE Spec2Model ----------------------------
(***************************************************************************)
(* Model of src/capital_structure.py: a Streamlit script that reads three  *)
(* sliders (V_U, T_c, FD_total), evaluates the trade-off curves over the  *)
(* grid of 101 debt percentages, locates the arg-max of the levered value *)
(* and derives the annotation points and the summary line.  Streamlit     *)
(* re-runs the whole script on every widget change, so every action below *)
(* is one slider change followed by the complete re-run, the SVG export   *)
(* included: three Plotly attempts, each of which may raise, then the     *)
(* hand-built SVG.                                                         *)
(*                                                                         *)
(* Numbers.  The script works in float64; the model works in fixed point: *)
(*   - money is held in micro-units: MICRO units are 1 (EUR million);      *)
(*   - T_c is held in slider steps of 0.5 %, so T_c = 50 is 25.0 %;        *)
(*   - d_frac = d_pct / 100 is held as the integer d_pct;                  *)
(*   - np.exp(-BETA_DECAY * d_frac) is the table ExpTab, rounded to        *)
(*     1/MICRO.                                                            *)
(* Every product is formed exactly and floored once to a micro-unit, where *)
(* float64 rounds to 53 bits.                                              *)
(***************************************************************************)
EXTENDS Integers, Sequences, FiniteSets

VARIABLES V_U, T_c, FD_total,
          pv_tax, V_tax, pv_fd, V_L,
          opt_idx, opt_d_pct,
          x_left, x_right, x_dist,
          PVTS_top, VL_top, VDist_bot, VDist_top,
          summary,
          svg_data, svg_method, svg_steps

vars == <<V_U, T_c, FD_total, pv_tax, V_tax, pv_fd, V_L, opt_idx, opt_d_pct,
          x_left, x_right, x_dist, PVTS_top, VL_top, VDist_bot, VDist_top,
          summary, svg_data, svg_method, svg_steps>>

----------------------------------------------------------------------------
(* Fixed-point scales of the model.                                        *)
MICRO == 10^6
\* T_c slider units per percent (the slider step is 0.5)
TC_PER_PERCENT == 2

(* Bounds: how many equal sections of its range each slider is sampled at. *)
VUDiv == 3
TcDiv == 5
FDDiv == 10

----------------------------------------------------------------------------
(* The sidebar sliders: minimum, maximum, default, step.                   *)
V_U_MIN == 50
V_U_MAX == 500
V_U_DEFAULT == 200
V_U_STEP == 10

\* T_c: 0.0 .. 50.0 default 25.0 step 0.5, in steps of 0.5 %
T_C_MIN == 0
T_C_MAX == 100
T_C_DEFAULT == 50
T_C_STEP == 1

FD_MIN == 0
FD_MAX == 150
FD_DEFAULT == 40
FD_STEP == 1

(* The model constants.                                                    *)
BETA_DECAY == 2
FD_EXPONENT == 2
OFFSET == 7
DIST_GAP == 3

(* d_pct = np.arange(0, 101); d_frac = d_pct / 100                         *)
GRID_STOP == 101

\* Variant of d_pct: the grid stops one point early, np.arange(0, 100).
d_pct_short == 0 .. (GRID_STOP - 2)

d_pct == 0 .. (GRID_STOP - 1)
D_FRAC_DEN == 100

----------------------------------------------------------------------------
(* The values a slider can take, sampled: min + step * k for the step      *)
(* counts k that cut the range into div sections (both ends included).     *)
SliderValues(lo, hi, step, div) ==
    LET n == (hi - lo) \div step
    IN  { lo + step * ((n * k) \div div) : k \in 0 .. div }

\* Variant of VUValues: the V_U slider starting at 0.
VUValues_FromZero == SliderValues(0, V_U_MAX, V_U_STEP, VUDiv)

VUValues == SliderValues(V_U_MIN, V_U_MAX, V_U_STEP, VUDiv)
TcValues == SliderValues(T_C_MIN, T_C_MAX, T_C_STEP, TcDiv)
FDValues == SliderValues(FD_MIN, FD_MAX, FD_STEP, FDDiv)

----------------------------------------------------------------------------
(* np.exp(-2.0 * d_frac) for d_pct = 0 .. 100, in units of 1/MICRO.        *)
ExpTab ==
  << 1000000, 980199, 960789, 941765, 923116, 904837, 886920, 869358,
     852144, 835270, 818731, 802519, 786628, 771052, 755784, 740818,
     726149, 711770, 697676, 683861, 670320, 657047, 644036, 631284,
     618783, 606531, 594521, 582748, 571209, 559898, 548812, 537944,
     527292, 516851, 506617, 496585, 486752, 477114, 467666, 458406,
     449329, 440432, 431711, 423162, 414783, 406570, 398519, 390628,
     382893, 375311, 367879, 360595, 353455, 346456, 339596, 332871,
     326280, 319819, 313486, 307279, 301194, 295230, 289384, 283654,
     278037, 272532, 267135, 261846, 256661, 251579, 246597, 241714,
     236928, 232236, 227638, 223130, 218712, 214381, 210136, 205975,
     201897, 197899, 193980, 190139, 186374, 182684, 179066, 175520,
     172045, 168638, 165299, 162026, 158817, 155673, 152590, 149569,
     146607, 143704, 140858, 138069, 135335 >>

\* exp(-BETA_DECAY * d_frac[i]); the table is the one for BETA_DECAY = 2
ExpDecay(i) == ExpTab[i + 1]

\* floor(c * x / q), formed without leaving 32 bits (x >= 0, q > 0)
MulDiv(c, x, q) == c * (x \div q) + (c * (x % q)) \div q

RECURSIVE Pow(_, _)
Pow(b, e) == IF e = 0 THEN 1 ELSE b * Pow(b, e - 1)

----------------------------------------------------------------------------
(* COMPUTATIONS                                                            *)

\* Variants of PvTax with one factor of the product left out.
PvTax_NoRatio(vu, tc, i) ==
    MulDiv(tc * vu, D_FRAC_DEN * ExpDecay(i),
           TC_PER_PERCENT * 100 * D_FRAC_DEN)

PvTax_NoDecay(vu, tc, i) ==
    MulDiv(tc * vu, i * MICRO,
           TC_PER_PERCENT * 100 * D_FRAC_DEN)

PvTax_NoRate(vu, tc, i) ==
    MulDiv(vu, i * ExpDecay(i), D_FRAC_DEN)

\* pv_tax = (T_c/100) * V_U * d_frac * np.exp(-BETA_DECAY * d_frac)
PvTax(vu, tc, i) ==
    MulDiv(tc * vu, i * ExpDecay(i),
           TC_PER_PERCENT * 100 * D_FRAC_DEN)

\* Variant of VTax with the tax shield subtracted.
VTax_Minus(vu, pvtax) == vu * MICRO - pvtax

\* V_tax = V_U + pv_tax
VTax(vu, pvtax) == vu * MICRO + pvtax

\* Variants of PvFd: the default scale hard-coded in place of the slider
\* value; the grid run from 100 % debt down to 0 %; the grid counted from 1.
PvFd_Hardcoded(fd, i) ==
    FD_DEFAULT * Pow(i, FD_EXPONENT)
        * (MICRO \div Pow(D_FRAC_DEN, FD_EXPONENT))

PvFd_Reversed(fd, i) ==
    fd * Pow(D_FRAC_DEN - i, FD_EXPONENT)
        * (MICRO \div Pow(D_FRAC_DEN, FD_EXPONENT))

PvFd_OneBased(fd, i) ==
    fd * Pow(i + 1, FD_EXPONENT)
        * (MICRO \div Pow(D_FRAC_DEN, FD_EXPONENT))

\* pv_fd = FD_total * d_frac**FD_EXPONENT
PvFd(fd, i) ==
    fd * Pow(i, FD_EXPONENT) * (MICRO \div Pow(D_FRAC_DEN, FD_EXPONENT))

\* Variant of VLev with the sign of the distress cost flipped.
VLev_Plus(vtax, pvfd) == vtax + pvfd

\* V_L = V_tax - pv_fd
VLev(vtax, pvfd) == vtax - pvfd

\* np.argmax: the index of the maximum, the first of equal maxima wins.
\* The range lo..hi is halved; the right half wins only when strictly greater.
RECURSIVE ArgMaxRange(_, _, _)
ArgMaxRange(a, lo, hi) ==
    IF lo = hi THEN lo
    ELSE LET mid == (lo + hi) \div 2
             l == ArgMaxRange(a, lo, mid)
             r == ArgMaxRange(a, mid + 1, hi)
         IN  IF a[r] > a[l] THEN r ELSE l

\* Variants of np_argmax: the scan starts at index 1; the last of equal
\* maxima wins.
np_argmax_skip0(a) == ArgMaxRange(a, 1, GRID_STOP - 1)

RECURSIVE ArgMaxLastRange(_, _, _)
ArgMaxLastRange(a, lo, hi) ==
    IF lo = hi THEN lo
    ELSE LET mid == (lo + hi) \div 2
             l == ArgMaxLastRange(a, lo, mid)
             r == ArgMaxLastRange(a, mid + 1, hi)
         IN  IF a[r] >= a[l] THEN r ELSE l

np_argmax_last(a) == ArgMaxLastRange(a, 0, GRID_STOP - 1)

\* the scan covers the array it is given, whatever its length
np_argmax(a) == ArgMaxRange(a, 0, Cardinality(DOMAIN a) - 1)

Max2(a, b) == IF a >= b THEN a ELSE b
Min2(a, b) == IF a <= b THEN a ELSE b

\* x_left = max(0, opt_d_pct - OFFSET)
XLeft(opt) == Max2(0, opt - OFFSET)
\* x_right = min(100, opt_d_pct + OFFSET)
XRight(opt) == Min2(100, opt + OFFSET)
\* Variant of XDist: the distress marker placed left of x_right.
XDist_Before(xr) == Min2(100, xr - DIST_GAP)

\* x_dist = min(100, x_right + DIST_GAP)
XDist(xr) == Min2(100, xr + DIST_GAP)

\* VL_top = V_L[x_right]
VLTop(vl, xr) == vl[xr]

\* f"{VL_top:,.1f}": the value in tenths, rounded half to even
Format1f(v) ==
    LET unit == MICRO \div 10
        q == v \div unit
        r == v % unit
    IN  IF 2 * r > unit THEN q + 1
        ELSE IF 2 * r < unit THEN q
        ELSE IF q % 2 = 0 THEN q ELSE q + 1

\* The script body (lines 819-838 and the summary) for the values vu, tc, fd.
Computations(vu, tc, fd) ==
    LET pvtax == [i \in d_pct |-> PvTax(vu, tc, i)]
        vtax  == [i \in d_pct |-> VTax(vu, pvtax[i])]
        pvfd  == [i \in d_pct |-> PvFd(fd, i)]
        vl    == [i \in d_pct |-> VLev(vtax[i], pvfd[i])]
        oi    == np_argmax(vl)
        opt   == oi
        xl    == XLeft(opt)
        xr    == XRight(opt)
        xd    == XDist(xr)
        top   == VLTop(vl, xr)
    IN  [pv_tax |-> pvtax, V_tax |-> vtax, pv_fd |-> pvfd, V_L |-> vl,
         opt_idx |-> oi, opt_d_pct |-> opt,
         x_left |-> xl, x_right |-> xr, x_dist |-> xd,
         PVTS_top |-> vtax[xl], VL_top |-> top,
         VDist_bot |-> vl[xd], VDist_top |-> vtax[xd],
         summary |-> [debt |-> opt, value |-> Format1f(top)]]

\* The model's domain as section 4.1 of the specification states it.
InDomain(vu, tc, fd) ==
    /\ vu > 0
    /\ tc >= 0
    /\ tc <= 100 * TC_PER_PERCENT
    /\ fd >= 0
    /\ BETA_DECAY >= 0
    /\ FD_EXPONENT >= 1

\* Variant of Script that validates its parameters first and yields no
\* series when one is out of domain.
Script_Validating(vu, tc, fd) ==
    IF InDomain(vu, tc, fd) THEN Computations(vu, tc, fd)
    ELSE [pv_tax |-> <<>>, V_tax |-> <<>>, pv_fd |-> <<>>, V_L |-> <<>>,
          opt_idx |-> 0, opt_d_pct |-> 0,
          x_left |-> 0, x_right |-> 0, x_dist |-> 0,
          PVTS_top |-> 0, VL_top |-> 0, VDist_bot |-> 0, VDist_top |-> 0,
          summary |-> [debt |-> 0, value |-> 0]]

\* Variant of Script that carries the largest distress scale seen so far
\* from one run to the next.
Script_Carry(vu, tc, fd) == Computations(vu, tc, Max2(fd, FD_total))

\* One run of the script: the computations are entered unconditionally.
Script(vu, tc, fd) == Computations(vu, tc, fd)

\* The state after the script has run with the sliders at vu, tc, fd.
Ran(vu, tc, fd, r) ==
    /\ V_U' = vu
    /\ T_c' = tc
    /\ FD_total' = fd
    /\ pv_tax' = r.pv_tax
    /\ V_tax' = r.V_tax
    /\ pv_fd' = r.pv_fd
    /\ V_L' = r.V_L
    /\ opt_idx' = r.opt_idx
    /\ opt_d_pct' = r.opt_d_pct
    /\ x_left' = r.x_left
    /\ x_right' = r.x_right
    /\ x_dist' = r.x_dist
    /\ PVTS_top' = r.PVTS_top
    /\ VL_top' = r.VL_top
    /\ VDist_bot' = r.VDist_bot
    /\ VDist_top' = r.VDist_top
    /\ summary' = r.summary

Loaded(vu, tc, fd, r) ==
    /\ V_U = vu
    /\ T_c = tc
    /\ FD_total = fd
    /\ pv_tax = r.pv_tax
    /\ V_tax = r.V_tax
    /\ pv_fd = r.pv_fd
    /\ V_L = r.V_L
    /\ opt_idx = r.opt_idx
    /\ opt_d_pct = r.opt_d_pct
    /\ x_left = r.x_left
    /\ x_right = r.x_right
    /\ x_dist = r.x_dist
    /\ PVTS_top = r.PVTS_top
    /\ VL_top = r.VL_top
    /\ VDist_bot = r.VDist_bot
    /\ VDist_top = r.VDist_top
    /\ summary = r.summary

----------------------------------------------------------------------------
(* SVG EXPORT                                                              *)

\* create_simple_accurate_svg: dimensions
SVG_WIDTH == 1000
SVG_HEIGHT == 700
MARGIN_LEFT == 100
MARGIN_RIGHT == 150
MARGIN_TOP == 80
MARGIN_BOTTOM == 100
plot_width == SVG_WIDTH - MARGIN_LEFT - MARGIN_RIGHT
plot_height == SVG_HEIGHT - MARGIN_TOP - MARGIN_BOTTOM

\* min(...) and max(...) of a series
RECURSIVE MinRange(_, _, _)
MinRange(a, lo, hi) ==
    IF lo = hi THEN a[lo]
    ELSE LET mid == (lo + hi) \div 2
         IN  Min2(MinRange(a, lo, mid), MinRange(a, mid + 1, hi))

RECURSIVE MaxRange(_, _, _)
MaxRange(a, lo, hi) ==
    IF lo = hi THEN a[lo]
    ELSE LET mid == (lo + hi) \div 2
         IN  Max2(MaxRange(a, lo, mid), MaxRange(a, mid + 1, hi))

SeriesMin(a) == MinRange(a, 0, Cardinality(DOMAIN a) - 1)
SeriesMax(a) == MaxRange(a, 0, Cardinality(DOMAIN a) - 1)

\* y_min = min(min(V_L), V_U) * 0.95
YMin(vl, vu) == MulDiv(95, Min2(SeriesMin(vl), vu * MICRO), 100)

\* y_max = max(max(V_tax), V_U) * 1.05
YMax(vtax, vu) == MulDiv(105, Max2(SeriesMax(vtax), vu * MICRO), 100)

\* Pixel coordinates are whole pixels (floored); the quotient of y_scale is
\* formed from values in units of MICRO / MILLI.
MILLI == 10^3

\* x_scale(x) = margin_left + (x / 100) * plot_width
XScale(x) == MARGIN_LEFT + (x * plot_width) \div 100

\* y_scale(y) = height - margin_bottom
\*              - ((y - y_min) / (y_max - y_min)) * plot_height
YScale(y, ymin, ymax) ==
    (SVG_HEIGHT - MARGIN_BOTTOM)
        - (((y - ymin) \div MILLI) * plot_height) \div ((ymax - ymin) \div MILLI)

\* create_path: one point per grid index
CreatePath(a, ymin, ymax) ==
    [i \in DOMAIN a |-> <<XScale(i), YScale(a[i], ymin, ymax)>>]

create_simple_accurate_svg(vl, vtax, vu, opt, vltop) ==
    LET ymin == YMin(vl, vu)
        ymax == YMax(vtax, vu)
    IN  [kind |-> "manual",
         y_min |-> ymin, y_max |-> ymax,
         v_levered_path |-> CreatePath(vl, ymin, ymax),
         v_tax_path |-> CreatePath(vtax, ymin, ymax),
         opt_x |-> XScale(opt),
         opt_y |-> YScale(vltop, ymin, ymax),
         vu_y |-> YScale(vu * MICRO, ymin, ymax)]

\* fig.to_image either raises or returns the bytes of an image.  An element
\* of Outcomes lists what the fig.to_image calls of one export do, in the
\* order they are made: every call but the last raises, and a fourth call is
\* never made.
ToImageOutcomes == {"raises", "returns"}
Outcomes ==
    { o \in UNION { [1 .. n -> ToImageOutcomes] : n \in 1 .. 3 } :
        /\ \A k \in 1 .. (Len(o) - 1) : o[k] = "raises"
        /\ Len(o) < 3 => o[Len(o)] = "returns" }

None == [kind |-> "None"]
PlotlyBytes(attempt) == [kind |-> "plotly", attempt |-> attempt]
Step(name, outcome) == [step |-> name, outcome |-> outcome]

\* Variant of try_plotly_svg_with_fixes: the second attempt returns the
\* first attempt's label.
try_plotly_copied_label(o) ==
    IF o[1] = "returns"
    THEN [data |-> PlotlyBytes(1), method |-> "Plotly Native",
          steps |-> <<Step("Plotly Native", o[1])>>]
    ELSE IF o[2] = "returns"
    THEN [data |-> PlotlyBytes(2), method |-> "Plotly Native",
          steps |-> <<Step("Plotly Native", o[1]),
                      Step("Plotly Orca", o[2])>>]
    ELSE IF o[3] = "returns"
    THEN [data |-> PlotlyBytes(3), method |-> "Plotly Kaleido",
          steps |-> <<Step("Plotly Native", o[1]),
                      Step("Plotly Orca", o[2]),
                      Step("Plotly Kaleido", o[3])>>]
    ELSE [data |-> None, method |-> "Failed",
          steps |-> <<Step("Plotly Native", o[1]),
                      Step("Plotly Orca", o[2]),
                      Step("Plotly Kaleido", o[3])>>]

\* try_plotly_svg_with_fixes: o[k] is what the k-th fig.to_image call does;
\* steps lists the attempts made, in order.
try_plotly_svg_with_fixes(o) ==
    IF o[1] = "returns"
    THEN [data |-> PlotlyBytes(1), method |-> "Plotly Native",
          steps |-> <<Step("Plotly Native", o[1])>>]
    ELSE IF o[2] = "returns"
    THEN [data |-> PlotlyBytes(2), method |-> "Plotly Orca",
          steps |-> <<Step("Plotly Native", o[1]),
                      Step("Plotly Orca", o[2])>>]
    ELSE IF o[3] = "returns"
    THEN [data |-> PlotlyBytes(3), method |-> "Plotly Kaleido",
          steps |-> <<Step("Plotly Native", o[1]),
                      Step("Plotly Orca", o[2]),
                      Step("Plotly Kaleido", o[3])>>]
    ELSE [data |-> None, method |-> "Failed",
          steps |-> <<Step("Plotly Native", o[1]),
                      Step("Plotly Orca", o[2]),
                      Step("Plotly Kaleido", o[3])>>]

\* if svg_data:
Truthy(data) == data # None

MANUAL_LABEL == "Manual (Accurate & Editable)"

\* Variant of ultimate_svg_export without the fallback to the manual SVG.
ultimate_svg_export_no_fallback(r, vu, o) ==
    LET t == try_plotly_svg_with_fixes(o)
    IN  [data |-> t.data,
         method |-> "Plotly (" \o t.method \o ")",
         steps |-> t.steps]

\* ultimate_svg_export, for the computed results r
ultimate_svg_export(r, vu, o) ==
    LET t == try_plotly_svg_with_fixes(o)
    IN  IF Truthy(t.data)
        THEN [data |-> t.data,
              method |-> "Plotly (" \o t.method \o ")",
              steps |-> t.steps]
        ELSE [data |-> create_simple_accurate_svg(r.V_L, r.V_tax, vu,
                                                  r.opt_d_pct, r.VL_top),
              method |-> MANUAL_LABEL,
              steps |-> Append(t.steps, Step("Manual", "returns"))]

\* The state after the export section of the script has run.
Exported(e) ==
    /\ svg_data' = e.data
    /\ svg_method' = e.method
    /\ svg_steps' = e.steps

ExportLoaded(e) ==
    /\ svg_data = e.data
    /\ svg_method = e.method
    /\ svg_steps = e.steps

\* The computations alone, the export section not run.
NotExported == [data |-> None, method |-> "", steps |-> <<>>]

----------------------------------------------------------------------------
(* First page load: the sliders stand at their defaults.                   *)
Init ==
    LET r == Script(V_U_DEFAULT, T_C_DEFAULT, FD_DEFAULT)
    IN  \E o \in Outcomes :
            /\ Loaded(V_U_DEFAULT, T_C_DEFAULT, FD_DEFAULT, r)
            /\ ExportLoaded(ultimate_svg_export(r, V_U_DEFAULT, o))

(* A slider is moved; Streamlit re-runs the script.                        *)
SetV_U ==
    \E v \in VUValues :
        /\ v # V_U
        /\ LET r == Script(v, T_c, FD_total)
           IN  \E o \in Outcomes :
                   /\ Ran(v, T_c, FD_total, r)
                   /\ Exported(ultimate_svg_export(r, v, o))

SetT_c ==
    \E t \in TcValues :
        /\ t # T_c
        /\ LET r == Script(V_U, t, FD_total)
           IN  \E o \in Outcomes :
                   /\ Ran(V_U, t, FD_total, r)
                   /\ Exported(ultimate_svg_export(r, V_U, o))

SetFD_total ==
    \E f \in FDValues :
        /\ f # FD_total
        /\ LET r == Script(V_U, T_c, f)
           IN  \E o \in Outcomes :
                   /\ Ran(V_U, T_c, f, r)
                   /\ Exported(ultimate_svg_export(r, V_U, o))

Next == SetV_U \/ SetT_c \/ SetFD_total

Spec == Init /\ [][Next]_vars

----------------------------------------------------------------------------
(* The computations taken as the function evaluate(params) of the          *)
(* specification, applied to arguments inside and outside the slider       *)
(* ranges.                                                                 *)
EvalVU == {-50, 0, 50, 200, 350, 500}
EvalTc == {-10, 0, 50, 100, 202}
EvalFD == {-5, 0, 40, 150}

InitEval ==
    \E vu \in EvalVU, tc \in EvalTc, fd \in EvalFD :
        /\ Loaded(vu, tc, fd, Script(vu, tc, fd))
        /\ ExportLoaded(NotExported)

Evaluate ==
    \E vu \in EvalVU, tc \in EvalTc, fd \in EvalFD :
        /\ <<vu, tc, fd>> # <<V_U, T_c, FD_total>>
        /\ Ran(vu, tc, fd, Script(vu, tc, fd))
        /\ Exported(NotExported)

SpecEval == InitEval /\ [][Evaluate]_vars

----------------------------------------------------------------------------
(* Properties.                                                             *)

Moved == <<V_U, T_c, FD_total>> # <<V_U_DEFAULT, T_C_DEFAULT, FD_DEFAULT>>

(* C1: the optimal index is a global maximum of the levered-value series:  *)
(* V_L[opt_idx] >= V_L[j] for every j in 0..100.                           *)
C1_GlobalMax == \A j \in d_pct : V_L[opt_idx] >= V_L[j]

C1_Witness ==
    /\ Moved
    /\ opt_idx > 0
    /\ V_L[0] < V_L[opt_idx]
    /\ V_L[100] < V_L[opt_idx]

(* C2: the levered value reported as the optimum (VL_top, shown in the     *)
(* summary line) equals V_L[opt_idx], the maximum of V_L.                  *)
C2_ReportedIsMax ==
    /\ VL_top = V_L[opt_idx]
    /\ summary.value = Format1f(V_L[opt_idx])

(* C3: the optimal index is the lowest index of the maximum: every earlier *)
(* grid point is strictly below V_L[opt_idx].                              *)
C3_FirstMax ==
    \A j \in d_pct :
        /\ j < opt_idx => V_L[j] < V_L[opt_idx]
        /\ V_L[j] = V_L[opt_idx] => opt_idx <= j

C3_Witness ==
    /\ Moved
    /\ \E j \in d_pct : j > opt_idx /\ V_L[j] = V_L[opt_idx]

(* C4: at zero debt the tax-shield-only value equals the unlevered value   *)
(* and the distress cost is 0, hence V_L[0] = V_U.                         *)
C4_ZeroDebt ==
    /\ V_tax[0] = V_U * MICRO
    /\ pv_fd[0] = 0
    /\ V_L[0] = V_U * MICRO

C4_Witness ==
    /\ T_c = T_C_MAX
    /\ FD_total = FD_MAX
    /\ V_tax[1] > V_U * MICRO
    /\ pv_fd[1] > 0

OutOfDomain == ~InDomain(V_U, T_c, FD_total)

NoResult == pv_tax = <<>> /\ V_tax = <<>> /\ pv_fd = <<>> /\ V_L = <<>>

C6_ValidDomain ==
    /\ V_U \in V_U_MIN .. V_U_MAX
    /\ T_c \in T_C_MIN .. T_C_MAX
    /\ FD_total \in FD_MIN .. FD_MAX
    /\ InDomain(V_U, T_c, FD_total)

C6_Witness ==
    /\ V_U = V_U_MIN
    /\ T_c = T_C_MAX
    /\ FD_total = FD_MIN
    /\ DOMAIN V_L = d_pct

(* C7: with V_U and T_c held fixed, raising the distress scale never       *)
(* raises the optimal debt percentage.                                     *)
C7_Monotone ==
    [][ (V_U' = V_U /\ T_c' = T_c /\ FD_total' >= FD_total)
            => opt_d_pct' <= opt_d_pct ]_vars

C7_Witness ==
    /\ FD_total # FD_DEFAULT
    /\ FD_total > 0
    /\ \E f \in FDValues :
          /\ f > 0
          /\ 2 * f = FD_total
          /\ opt_d_pct < Script(V_U, T_c, f).opt_d_pct

(* C8: when the tax rate is 0 the optimal index is 0 and the optimal       *)
(* levered value reported equals the unlevered value V_U.                  *)
C8_ZeroTax == T_c = 0 => (opt_idx = 0 /\ VL_top = V_U * MICRO)

(* C9: when FD_total is 0 and the tax rate is positive, the optimal index  *)
(* is the index of the tax-shield curve's own maximum, the interior peak   *)
(* at index 50.                                                            *)
C9_TaxPeak ==
    (FD_total = 0 /\ T_c > 0) =>
        (opt_idx = np_argmax(V_tax) /\ opt_idx = 50)

C9_Witness ==
    /\ FD_total = 0
    /\ T_c > 0
    /\ V_U # V_U_DEFAULT
    /\ V_L[opt_idx] > V_L[100]
    /\ V_L[opt_idx] > V_L[0]

(* C10: when the tax rate is 0 the tax-shield-only curve is flat:          *)
(* V_tax[i] = V_U for every i in 0..100.                                   *)
C10_FlatTax == T_c = 0 => \A i \in d_pct : V_tax[i] = V_U * MICRO

C10_Witness ==
    /\ T_c = 0
    /\ FD_total > 0
    /\ V_L[100] < V_U * MICRO
    /\ V_tax[100] = V_U * MICRO

(* C11: when FD_total is 0 the levered curve coincides with the            *)
(* tax-shield-only curve: V_L[i] = V_tax[i] for every i in 0..100.         *)
C11_NoDistress == FD_total = 0 => \A i \in d_pct : V_L[i] = V_tax[i]

C11_Witness ==
    /\ FD_total = 0
    /\ T_c > 0
    /\ V_U # V_U_DEFAULT
    /\ V_L[100] = V_tax[100]
    /\ V_tax[100] > V_U * MICRO

(* C12: the distress-cost series is non-decreasing along the grid:         *)
(* pv_fd[i] <= pv_fd[i+1] for every i in 0..99.                            *)
C12_DistressMonotone == \A i \in 0 .. 99 : pv_fd[i] <= pv_fd[i + 1]

C12_Witness ==
    /\ FD_total = FD_MAX
    /\ \A i \in 0 .. 99 : pv_fd[i] < pv_fd[i + 1]

(* C13: the distress cost at 100 % debt equals the slider value:           *)
(* pv_fd[100] = FD_total.                                                  *)
C13_DistressAtFull == pv_fd[100] = FD_total * MICRO

C13_Witness ==
    /\ FD_total # FD_DEFAULT
    /\ FD_total > 0
    /\ pv_fd[100] > pv_fd[50]

C15_Total ==
    /\ DOMAIN pv_tax = 0 .. 100
    /\ DOMAIN pv_fd = 0 .. 100
    /\ DOMAIN V_tax = 0 .. 100
    /\ DOMAIN V_L = 0 .. 100
    /\ Cardinality(DOMAIN V_L) = 101
    /\ Cardinality(d_pct) = 101
    /\ \A i \in d_pct : \A j \in d_pct :
          i < j => i * D_FRAC_DEN < j * D_FRAC_DEN
    /\ opt_idx \in 0 .. 100

C15_Witness ==
    /\ T_c = 0
    /\ FD_total = 0
    /\ DOMAIN V_L = 0 .. 100
    /\ V_L[100] = V_U * MICRO

AtDefaults ==
    /\ V_U = V_U_DEFAULT
    /\ T_c = T_C_DEFAULT
    /\ FD_total = FD_DEFAULT

(* C16: with the default parameters (V_U = 200, T_c = 25 %, FD_total = 40) *)
(* the optimal index is interior, 0 < opt_idx < 100, and V_L[0] = 200.     *)
C16_DefaultInterior ==
    AtDefaults =>
        /\ 0 < opt_idx
        /\ opt_idx < 100
        /\ V_L[0] = 200 * MICRO

C16_Witness ==
    /\ AtDefaults
    /\ V_U = 200
    /\ FD_total = 40
    /\ V_L[opt_idx] > V_L[0]
    /\ V_L[opt_idx] > V_L[100]

(* C20: the optimal debt percentage never exceeds 50, so the clamps        *)
(* min(100, ...) on x_right and x_dist never bind.                         *)
C20_AtMostHalf ==
    /\ opt_d_pct <= 50
    /\ x_right = opt_d_pct + OFFSET
    /\ x_dist = x_right + DIST_GAP

C20_Witness ==
    /\ opt_d_pct = 50
    /\ T_c > 0
    /\ x_dist = 60

AllPlotlyRaised ==
    /\ Len(svg_steps) >= 3
    /\ \A k \in 1 .. 3 : svg_steps[k].outcome = "raises"

(* C17: the export always yields SVG data and a method label: when a       *)
(* Plotly attempt returns data, that data is returned; when all three      *)
(* raise, the hand-built SVG is returned with the label                    *)
(* 'Manual (Accurate & Editable)'; the result is never None.               *)
C17_AlwaysSvg ==
    /\ svg_data # None
    /\ svg_data.kind \in {"plotly", "manual"}
    /\ svg_method # ""
    /\ \A k \in 1 .. Len(svg_steps) :
          (svg_steps[k].step # "Manual" /\ svg_steps[k].outcome = "returns")
              => svg_data = PlotlyBytes(k)
    /\ AllPlotlyRaised =>
          (svg_data.kind = "manual" /\ svg_method = MANUAL_LABEL)

C17_Witness ==
    /\ Moved
    /\ AllPlotlyRaised
    /\ svg_data.kind = "manual"
    /\ svg_method = MANUAL_LABEL

ChainOrder == <<"Plotly Native", "Plotly Orca", "Plotly Kaleido", "Manual">>

(* C18: the export steps run in the fixed order native, orca, kaleido,     *)
(* manual; a step is attempted only after every earlier step has raised,   *)
(* the first success ends the chain, and the label names the method that   *)
(* produced the data returned.                                             *)
C18_ChainOrder ==
    LET n == Len(svg_steps)
    IN  /\ n \in 1 .. 4
        /\ \A k \in 1 .. n : svg_steps[k].step = ChainOrder[k]
        /\ \A k \in 1 .. (n - 1) : svg_steps[k].outcome = "raises"
        /\ svg_steps[n].outcome = "returns"
        /\ svg_method = IF n = 4 THEN MANUAL_LABEL
                        ELSE "Plotly (" \o ChainOrder[n] \o ")"
        /\ svg_data.kind = IF n = 4 THEN "manual" ELSE "plotly"
        /\ n < 4 => svg_data.attempt = n

C18_Witness ==
    /\ Moved
    /\ Len(svg_steps) = 3
    /\ svg_steps[2].outcome = "raises"
    /\ svg_steps[3].outcome = "returns"
    /\ svg_method = "Plotly (Plotly Kaleido)"

(* C19: the manual SVG draws every point of the levered curve and of the   *)
(* tax-benefit curve inside the plot area: y_min <= min(V_L),              *)
(* max(V_tax) <= y_max, and margin_top <= y_scale(v) <= height -           *)
(* margin_bottom for every plotted value v.                                *)
C19_NoClipping ==
    svg_data.kind = "manual" =>
        /\ svg_data.y_min <= SeriesMin(V_L)
        /\ SeriesMax(V_tax) <= svg_data.y_max
        /\ \A i \in d_pct :
              /\ svg_data.v_levered_path[i][2] >= MARGIN_TOP
              /\ svg_data.v_levered_path[i][2] <= SVG_HEIGHT - MARGIN_BOTTOM
              /\ svg_data.v_tax_path[i][2] >= MARGIN_TOP
              /\ svg_data.v_tax_path[i][2] <= SVG_HEIGHT - MARGIN_BOTTOM

(* C21: the annotation indices are valid grid indices and ordered:         *)
(* 0 <= x_left <= opt_d_pct <= x_right <= x_dist <= 100, so the lookups    *)
(* V_tax[x_left], V_L[x_right], V_L[x_dist], V_tax[x_dist] are in range.   *)
C21_IndicesOrdered ==
    /\ 0 <= x_left /\ x_left <= opt_d_pct
    /\ opt_d_pct <= x_right /\ x_right <= x_dist
    /\ x_dist <= 100
    /\ x_left \in DOMAIN V_tax /\ x_dist \in DOMAIN V_tax
    /\ x_right \in DOMAIN V_L /\ x_dist \in DOMAIN V_L
    /\ PVTS_top = V_tax[x_left]
    /\ VL_top = V_L[x_right]
    /\ VDist_bot = V_L[x_dist]
    /\ VDist_top = V_tax[x_dist]

\* the lower clamp acts: the optimum is closer than OFFSET to the left edge
C21_Witness ==
    /\ Moved
    /\ opt_d_pct > 0
    /\ opt_d_pct < OFFSET
    /\ x_left = 0
    /\ x_dist = opt_d_pct + OFFSET + DIST_GAP

(* C22: the curves are ordered: for every i in 0..100, V_U <= V_tax[i] and *)
(* V_L[i] <= V_tax[i]; and the maximum levered value V_L[opt_idx] is never *)
(* below the unlevered value V_U.                                          *)
C22_CurveOrdering ==
    /\ \A i \in d_pct :
          /\ V_U * MICRO <= V_tax[i]
          /\ V_L[i] <= V_tax[i]
    /\ V_L[opt_idx] >= V_U * MICRO

\* all three orderings are strict somewhere, and the levered curve dips
\* below V_U
C22_Witness ==
    /\ Moved
    /\ V_L[opt_idx] > V_U * MICRO
    /\ \E i \in d_pct : V_U * MICRO < V_tax[i] /\ V_L[i] < V_U * MICRO

=============================================================================
